---- MODULE Spec2Model ----
(***************************************************************************)
(* State-machine model of class CVAE (src/cvae.py): the training counter,  *)
(* the parameters held by the session, the summary writer, the checkpoint  *)
(* files, the graph evaluated by sess.run, and the train() driver loop.    *)
(*                                                                         *)
(* Numeric abstraction.  Tensors are small integer vectors.  exp is taken   *)
(* to base 4 so that sqrt(exp(r)) is the integer 2^r; like the real         *)
(* function it is strictly positive and never equal to its argument.        *)
(* The parameter vector is represented by the number of optimizer updates   *)
(* that produced it.  The scalar loss returned by sess.run is an input      *)
(* drawn from {1, MaxCost}, and avg_cost is kept as the exact numerator of    *)
(* avg_cost = avgNum / n_samples.                                           *)
(***************************************************************************)
EXTENDS Integers, Sequences, FiniteSets, TLC

\* ---------------------------------------------------------------- bounds
MaxIter == 2       \* optimizer updates explored when every operation is enabled
MaxSummaryIter == 21   \* optimizer updates explored when only partial_fit runs
NumFeat == 1       \* length of the flattened feature vector / input
MaxN == 3          \* source.train.num_examples ranges over 0..MaxN
MaxBatch == 2      \* train's batch_size ranges over 0..MaxBatch
MaxEpochs == 2     \* train's training_epochs ranges over 0..MaxEpochs
MaxCost == 2       \* loss values returned by sess.run: 1 and MaxCost
MaxHP == 2         \* hyperparameter values: 1, MaxHP, 10*MaxHP+1

\* ------------------------------------------------------ program constants
SummaryEvery == 10     \* cvae.py:147
KeepNum == 9           \* dropout(0.9), cvae.py:131  (keep_prob = KeepNum/KeepDen)
KeepDen == 10

\* a path at which os.path.isfile() is false
NoFile == [exists |-> FALSE, saved |-> 0]
\* the checkpoint saver.save() writes
Checkpoint(p) == [exists |-> TRUE, saved |-> p]
Paths == {"ckpt_a", "ckpt_b"}
Pixels == {0, 1}
\* the all-zero and the all-one image
Inputs == {[i \in 1..NumFeat |-> v] : v \in Pixels}
Masks == [1..NumFeat -> {0, 1}]
EpsVals == {-1, 1}
Costs == {1, MaxCost}
HPVals == {1, MaxHP, 10 * MaxHP + 1}
HPFields == {"h", "w", "batch", "latent", "e_dim", "d_dim"}
\* the end-to-end configuration of the documentation: 28x28, batch 32, latent 20
DefaultHP == [h |-> 28, w |-> 28, batch |-> 32, latent |-> 20, e_dim |-> 64, d_dim |-> 64]
\* hyperparameters of the first instance when names are compared
HPBases == {[k \in HPFields |-> v] : v \in HPVals} \cup {DefaultHP}

VARIABLES
    hp,         \* self.input_shape, batch_size, latent_size, e_dim, d_dim
    other,      \* hyperparameters of a second CVAE instance
    iteration,  \* self.iteration
    params,     \* the session's variables (version = updates that produced them)
    updates,    \* history: optimizer updates applied by sess.run
    fits,       \* history: partial_fit calls that returned
    summaries,  \* step tags written to self.summary_writer, in order
    fs,         \* checkpoint files: path -> NoFile or the saved parameters
    last,       \* record of the most recent call and what it evaluated
    source,     \* source.train.num_examples of the data source handed to train()
    names,      \* strings returned by get_name() on the two instances
    tr          \* frame of a running train() call

vars == <<hp, other, iteration, params, updates, fits, summaries, fs, last, source, names, tr>>

\* ------------------------------------------------------------ arithmetic
RECURSIVE Pow(_, _)
Pow(b, e) == IF e = 0 THEN 1 ELSE b * Pow(b, e - 1)

RECURSIVE SumTo(_, _)
SumTo(f, n) == IF n = 0 THEN 0 ELSE f[n] + SumTo(f, n - 1)

\* tf.exp, to base 4
Exp(r) == Pow(4, r)

\* tf.sqrt on perfect squares
Sqrt(v) == CHOOSE s \in 0..v : s * s = v

\* ------------------------------------------------------------- get_name
Digit(d) == CASE d = 0 -> "0" [] d = 1 -> "1" [] d = 2 -> "2" [] d = 3 -> "3"
              [] d = 4 -> "4" [] d = 5 -> "5" [] d = 6 -> "6" [] d = 7 -> "7"
              [] d = 8 -> "8" [] d = 9 -> "9"

\* the %d conversion of a non-negative integer
RECURSIVE FormatD(_)
FormatD(n) == IF n < 10 THEN Digit(n) ELSE FormatD(n \div 10) \o Digit(n % 10)

\* get_name with d_dim formatted twice
get_name_dup_ddim(m) ==
    "cvae_input_" \o FormatD(m.h) \o "x" \o FormatD(m.w)
        \o "_batch" \o FormatD(m.batch) \o "_latent" \o FormatD(m.latent)
        \o "_edim" \o FormatD(m.d_dim) \o "_ddim" \o FormatD(m.d_dim)

get_name(m) ==
    "cvae_input_" \o FormatD(m.h) \o "x" \o FormatD(m.w)
        \o "_batch" \o FormatD(m.batch) \o "_latent" \o FormatD(m.latent)
        \o "_edim" \o FormatD(m.e_dim) \o "_ddim" \o FormatD(m.d_dim)

\* ---------------------------------------------------------------- graph
\* conv2d x3 with batch normalisation: a deterministic function of the input
conv(p, x) == [i \in 1..NumFeat |-> x[i]]

\* dropout(0.9): no phase is passed and is_training is not an input of the
\* layer, so a fresh mask is drawn at every evaluation of the encoder
dropout(h, mask) == [i \in 1..NumFeat |-> IF mask[i] = 1 THEN (h[i] * KeepDen) \div KeepNum ELSE 0]

\* fully_connected(latent_size * 2, activation_fn=None): <<first half, second half>>
fully_connected(p, d) == <<SumTo(d, NumFeat) + (p % 2), SumTo(d, NumFeat)>>

\* encoder(): params[:, :latent] and sqrt(exp(params[:, latent:]))
encoder(p, x, mask) ==
    LET out == fully_connected(p, dropout(conv(p, x), mask))
    IN  [mean |-> out[1], stddev |-> Sqrt(Exp(out[2]))]

\* the pre-transform second half of the fully connected output
raw_second_half(p, x, mask) == fully_connected(p, dropout(conv(p, x), mask))[2]

\* __init__: self.z_mean, self.z_log_sigma_sq = self.encoder(...)
z_mean(p, x, mask) == encoder(p, x, mask).mean
z_log_sigma_sq(p, x, mask) == encoder(p, x, mask).stddev

\* __init__: the scale multiplied by eps in z = z_mean + z_log_sigma_sq * eps
sampler_scale(p, x, mask) == z_log_sigma_sq(p, x, mask)

sampler(p, x, mask, eps) == z_mean(p, x, mask) + sampler_scale(p, x, mask) * eps

\* a graph in which the loss is handed the pre-transform value
kl_input_raw(p, x, mask) == raw_second_half(p, x, mask)

\* __init__: the third argument passed to _create_loss_and_optimizer
kl_input(p, x, mask) == z_log_sigma_sq(p, x, mask)

\* _create_loss_and_optimizer: 2 * latent_loss for one example, latent size 1
latent_loss2(s, m) == 0 - (1 + s - m * m - Exp(s))

\* decoder(): sigmoid output, one pixel
decoder(p, z) == IF z + (p % 2) > 0 THEN 1 ELSE 0

\* ------------------------------------------------------------ partial_fit
\* partial_fit line 147: whether this call fetches and writes the summary
writes_summary(it) == it % SummaryEvery = 0

\* the summary tagged with the counter after its increment
summary_tag_post(it) == it + 1

\* partial_fit line 150: the global_step passed to add_summary
summary_tag(it) == it

\* the counter bumped before the graph is run
iteration_after_early(it, outcome) == it + 1

\* partial_fit line 155, reached only when nothing above it raised
iteration_after(it, outcome) == IF outcome = "ok" THEN it + 1 ELSE it

\* sess.run([self.optimizer, ...]) applies the update unless run itself raises;
\* add_summary is called after it
applies_update(outcome) == outcome \in {"ok", "summary_raises"}

\* how a partial_fit call can end: it returns, sess.run raises, or (only on the
\* branch of line 148) summary_writer.add_summary raises
Outcomes(it) == {"ok", "run_raises"} \cup (IF writes_summary(it) THEN {"summary_raises"} ELSE {})

\* The record of a call: its name and how it ended, the parameters and the
\* counter at its entry, whether it wrote a summary / found a file / restored,
\* and what the graph evaluated: the input, the raw second half, the sampler's
\* scale, the value handed to the loss, and the value fetched (z_mean for
\* transform, the reconstruction for reconstruct, 2 * latent_loss for partial_fit).
NoCall == [op |-> "none", status |-> "none", preParams |-> 0, preIter |-> 0,
           wrote |-> FALSE, existed |-> FALSE, restored |-> FALSE,
           x |-> <<>>, raw |-> 0, scale |-> 0, klArg |-> 0, out |-> 0]

Call(op, status) == [NoCall EXCEPT !.op = op, !.status = status,
                                   !.preParams = params, !.preIter = iteration]

\* partial_fit(sess, X); cap bounds the optimizer updates explored
PartialFitBody(cap, x, mask, outcome) ==
    /\ outcome \in Outcomes(iteration)
    /\ applies_update(outcome) => updates < cap
    /\ iteration' = iteration_after(iteration, outcome)
    /\ fits' = IF outcome = "ok" THEN fits + 1 ELSE fits
    /\ params' = IF applies_update(outcome) THEN params + 1 ELSE params
    /\ updates' = IF applies_update(outcome) THEN updates + 1 ELSE updates
    /\ summaries' = IF outcome = "ok" /\ writes_summary(iteration)
                    THEN Append(summaries, summary_tag(iteration))
                    ELSE summaries
    /\ last' = IF outcome = "run_raises"
               THEN Call("partial_fit", "raised")
               ELSE [Call("partial_fit", IF outcome = "ok" THEN "returned" ELSE "raised")
                       EXCEPT !.wrote = (outcome = "ok" /\ writes_summary(iteration)),
                              !.raw = raw_second_half(params, x, mask),
                              !.scale = sampler_scale(params, x, mask),
                              !.klArg = kl_input(params, x, mask),
                              !.out = latent_loss2(kl_input(params, x, mask), z_mean(params, x, mask))]
    /\ UNCHANGED <<hp, other, fs, source, names>>

Idle == tr.pc = "idle"

PartialFit(cap) ==
    /\ Idle
    /\ \E x \in Inputs, mask \in Masks, outcome \in {"ok", "run_raises", "summary_raises"} :
           PartialFitBody(cap, x, mask, outcome)
    /\ UNCHANGED tr

\* ------------------------------------------------- inference operations
Transform ==
    /\ Idle
    /\ \E x \in Inputs, mask \in Masks :
           last' = [Call("transform", "returned") EXCEPT !.x = x, !.out = z_mean(params, x, mask)]
    /\ UNCHANGED <<hp, other, iteration, params, updates, fits, summaries, fs, source, names, tr>>

Reconstruct ==
    /\ Idle
    /\ \E x \in Inputs, mask \in Masks, eps \in EpsVals :
           last' = [Call("reconstruct", "returned")
                      EXCEPT !.x = x, !.out = decoder(params, sampler(params, x, mask, eps))]
    /\ UNCHANGED <<hp, other, iteration, params, updates, fits, summaries, fs, source, names, tr>>

\* generate(): z_mu is neither a parameter, a local nor an attribute, so building
\* feed_dict raises NameError before sess.run is reached
Generate ==
    /\ Idle
    /\ last' = Call("generate", "raised")
    /\ UNCHANGED <<hp, other, iteration, params, updates, fits, summaries, fs, source, names, tr>>

\* ------------------------------------------------------------ save / load
\* load() that reinitialises the variables when the file is missing
load_params_reinit(p, file) == IF file.exists THEN file.saved ELSE 0

\* load(): restore only if os.path.isfile(filename)
load_params(p, file) == IF file.exists THEN file.saved ELSE p

Save ==
    /\ Idle
    /\ \E f \in Paths :
           /\ fs' = [fs EXCEPT ![f] = Checkpoint(params)]
           /\ last' = [Call("save", "returned") EXCEPT !.existed = fs[f].exists]
    /\ UNCHANGED <<hp, other, iteration, params, updates, fits, summaries, source, names, tr>>

Load ==
    /\ Idle
    /\ \E f \in Paths :
           /\ params' = load_params(params, fs[f])
           /\ last' = [Call("load", "returned") EXCEPT !.existed = fs[f].exists,
                                                      !.restored = fs[f].exists]
    /\ UNCHANGED <<hp, other, iteration, updates, fits, summaries, fs, source, names, tr>>

GetName ==
    /\ Idle
    /\ names' = [names EXCEPT ![1] = get_name(hp)]
    /\ UNCHANGED <<hp, other, iteration, params, updates, fits, summaries, fs, last, source, tr>>

GetNameOther ==
    /\ Idle
    /\ names' = [names EXCEPT ![2] = get_name(other)]
    /\ UNCHANGED <<hp, other, iteration, params, updates, fits, summaries, fs, last, source, tr>>

\* ----------------------------------------------------------------- train
\* total_batch rounded up instead of down
total_batch_ceil(n, bs) == (n + bs - 1) \div bs

\* train line 196: int(n_samples / batch_size), integer division
total_batch(n, bs) == n \div bs

IdleFrame == [pc |-> "idle", bs |-> 0, E |-> 0, epoch |-> 0, i |-> 0, total |-> 0,
              avgNum |-> 0, draws |-> 0, startIter |-> 0, startParams |-> 0,
              epochReports |-> 0, report |-> <<>>]

\* train() is entered: line 193, the epoch loop is about to start
TrainBegin ==
    /\ Idle
    /\ \E bs \in 0..MaxBatch, E \in 0..MaxEpochs :
           tr' = [IdleFrame EXCEPT !.pc = "epoch", !.bs = bs, !.E = E,
                                   !.startIter = iteration, !.startParams = params]
    /\ last' = Call("train", "running")
    /\ UNCHANGED <<hp, other, iteration, params, updates, fits, summaries, fs, source, names>>

\* head of "for epoch in range(training_epochs)": lines 194-196, or the return
TrainEpoch ==
    /\ tr.pc = "epoch"
    /\ IF tr.epoch < tr.E
       THEN IF tr.bs = 0
            THEN \* ZeroDivisionError at line 196
                 /\ tr' = IdleFrame
                 /\ last' = [last EXCEPT !.status = "raised"]
            ELSE /\ tr' = [tr EXCEPT !.pc = "batch", !.avgNum = 0, !.i = 0, !.epochReports = 0,
                                     !.total = total_batch(source, tr.bs)]
                 /\ last' = last
       ELSE /\ tr' = IdleFrame
            /\ last' = [Call("train", "returned") EXCEPT !.preIter = tr.startIter,
                                                         !.preParams = tr.startParams]
    /\ UNCHANGED <<hp, other, iteration, params, updates, fits, summaries, fs, source, names>>

\* one pass of "for i in range(total_batch)": lines 199-210, the print of lines
\* 208-210 included (epoch + 1, cost, avg_cost); an exception raised by
\* partial_fit leaves train()
TrainBatch(cap) ==
    /\ tr.pc = "batch"
    /\ tr.i < tr.total
    /\ \E x \in Inputs, mask \in Masks, cost \in Costs,
          outcome \in {"ok", "run_raises", "summary_raises"} :
           /\ PartialFitBody(cap, x, mask, outcome)
           /\ IF outcome = "ok"
              THEN tr' = [tr EXCEPT !.draws = @ + 1, !.i = @ + 1,
                                    !.avgNum = @ + cost * tr.bs,
                                    !.epochReports = @ + 1,
                                    !.report = <<tr.epoch + 1, cost, tr.avgNum + cost * tr.bs>>]
              ELSE tr' = IdleFrame

\* "for i in range(total_batch)" is exhausted: on to the next epoch
TrainEpochEnd ==
    /\ tr.pc = "batch"
    /\ tr.i = tr.total
    /\ tr' = [tr EXCEPT !.pc = "epoch", !.epoch = @ + 1]
    /\ UNCHANGED <<hp, other, iteration, params, updates, fits, summaries, fs, last, source, names>>

\* ------------------------------------------------------- specifications
\* __init__: lines 21-27; the session's variables start at version 0
InitObject ==
    /\ iteration = 0
    /\ params = 0
    /\ updates = 0
    /\ fits = 0
    /\ summaries = <<>>
    /\ fs = [f \in Paths |-> NoFile]
    /\ last = NoCall
    /\ names = <<"", "">>
    /\ tr = IdleFrame

Init ==
    /\ hp = DefaultHP
    /\ other = DefaultHP
    /\ source = MaxN
    /\ InitObject

Next ==
    \/ PartialFit(MaxIter)
    \/ Transform
    \/ Reconstruct
    \/ Generate
    \/ Save
    \/ Load
    \/ GetName
    \/ TrainBegin
    \/ TrainEpoch
    \/ TrainBatch(MaxIter)
    \/ TrainEpochEnd

Spec == Init /\ [][Next]_vars

\* partial_fit alone, far enough to pass two multiples of ten
NextFit == PartialFit(MaxSummaryIter)

SpecFit == Init /\ [][NextFit]_vars

\* train() alone, on data sources of every size up to MaxN
InitTrain ==
    /\ hp = DefaultHP
    /\ other = DefaultHP
    /\ source \in 0..MaxN
    /\ InitObject

NextTrain ==
    \/ TrainBegin
    \/ TrainEpoch
    \/ TrainBatch(MaxEpochs * MaxN)
    \/ TrainEpochEnd

SpecTrain == InitTrain /\ [][NextTrain]_vars

\* two instances, the second differing from the first in at most one
\* hyperparameter; the first may be trained between the calls of get_name
InitName ==
    /\ hp \in HPBases
    /\ \E k \in HPFields, v \in HPVals : other = [hp EXCEPT ![k] = v]
    /\ source = MaxN
    /\ InitObject

NextName ==
    \/ GetName
    \/ GetNameOther
    \/ PartialFit(MaxIter)

SpecName == InitName /\ [][NextName]_vars

\* ---------------------------------------------------------------- claims
\* Calls other than partial_fit and train
OtherOps == {"load", "save", "transform", "reconstruct", "generate"}

\* C1: iteration is 0 after construction, always equals the number of partial_fit
\* calls that have returned (so it never decreases and grows by one per completed
\* call, those made by train included), and no other call, load included,
\* changes it.
C1_IterationCountsCompletedFits ==
    /\ iteration = fits
    /\ last.op \in OtherOps => iteration = last.preIter
    /\ last.op = "train" /\ last.status = "returned" => iteration >= last.preIter

\* C1 witness: after two completed steps a load has restored an older checkpoint
C1_Witness ==
    /\ last.op = "load"
    /\ last.restored
    /\ params < last.preParams
    /\ iteration = 2

\* C2: the step tags in the summary writer are exactly 0, 10, 20, ... below the
\* counter, without repeats; a partial_fit call that returned wrote a summary
\* iff the counter at its entry was a multiple of ten, tagged with that value.
C2_SummaryEveryTenthStep ==
    /\ summaries = [k \in 1..((iteration + SummaryEvery - 1) \div SummaryEvery) |-> SummaryEvery * (k - 1)]
    /\ last.op = "partial_fit" /\ last.status = "returned" =>
           /\ last.wrote <=> (last.preIter % SummaryEvery = 0)
           /\ last.wrote => summaries[Len(summaries)] = last.preIter

\* C2 witness: the third summary has been written, by the call entered at 20
C2_Witness ==
    /\ summaries = <<0, 10, 20>>
    /\ last.op = "partial_fit"
    /\ last.wrote
    /\ last.preIter = 20

\* C3: load on a path with no file returns normally, attempts no restore and
\* leaves the parameters and the counter as they were before the call.
C3_LoadMissingIsNoOp ==
    last.op = "load" /\ ~last.existed =>
        /\ last.status = "returned"
        /\ ~last.restored
        /\ params = last.preParams
        /\ iteration = last.preIter

\* C3 witness: a load of a missing path on a model that has been trained
C3_Witness ==
    /\ last.op = "load"
    /\ ~last.existed
    /\ params > 0
    /\ iteration > 0

\* C4: get_name depends on the hyperparameters alone: two instances return the
\* same string iff their hyperparameters are the same, so changing any one
\* hyperparameter changes the string.
C4_NameDeterminedByHyperparameters ==
    names[1] # "" /\ names[2] # "" => ((names[1] = names[2]) <=> (hp = other))

\* C4 witness: both names taken, the first instance trained, the instances
\* differing in e_dim only, and a hyperparameter of two digits
C4_Witness ==
    /\ names[1] # ""
    /\ names[2] # ""
    /\ iteration > 0
    /\ hp.e_dim # other.e_dim
    /\ hp.h = 10 * MaxHP + 1

\* C5: two transform calls in a row on the same input, the parameters unchanged
\* between them, return the same posterior mean.
C5_TransformDeterministic ==
    [][(last.op = "transform" /\ last'.op = "transform" /\ last'.x = last.x /\ params' = params)
          => last'.out = last.out]_vars

\* C6: a call to generate returns normally (with the decoder's output).
C6_GenerateReturns ==
    last.op = "generate" => last.status = "returned"

C8_TrainStepsPerEpoch ==
    tr.pc # "idle" /\ tr.bs > 0 =>
        /\ tr.draws = iteration - tr.startIter
        /\ tr.pc = "epoch" => tr.draws = tr.epoch * (source \div tr.bs)
        /\ tr.pc = "batch" => /\ tr.i <= source \div tr.bs
                              /\ tr.draws = tr.epoch * (source \div tr.bs) + tr.i

\* C8 witness: train is about to return after its last epoch, three examples
\* in batches of two
C8_Witness ==
    /\ tr.pc = "epoch"
    /\ tr.epoch = tr.E
    /\ tr.E = 2
    /\ source = 3
    /\ tr.bs = 2
    /\ tr.draws = 2

\* C9: when an epoch of train with at least one mini-batch step has ended,
\* exactly one report was emitted in it, and it carries the epoch's accumulated
\* average cost.
C9_OneReportPerEpoch ==
    tr.pc = "epoch" /\ tr.epoch > 0 /\ tr.total > 0 =>
        /\ tr.epochReports = 1
        /\ tr.report = <<tr.epoch, tr.report[2], tr.avgNum>>

\* C10: a partial_fit call that raised left the parameters and the counter as
\* they were, so the optimizer updates applied always number iteration.
C10_FailedStepAppliesNothing ==
    /\ last.op = "partial_fit" /\ last.status = "raised" =>
           /\ params = last.preParams
           /\ iteration = last.preIter
    /\ updates = iteration

====
